---- MODULE Spec2Model ----
(***************************************************************************)
(* A model of the nlr pipeline: the page-sampling image extractor          *)
(* (extractor.py, class ImageExtractor) and the bibliographic record       *)
(* parser (marc_parser.py, class MARCParser).                              *)
(*                                                                         *)
(* Six specifications share the variables:                                 *)
(*   Spec          a batch run of ImageExtractor.process_all_books, then   *)
(*                 a second run of main() over the same output directory   *)
(*   SpecSelect    calls of ImageExtractor.select_pages                    *)
(*   SpecPdf       one call of ImageExtractor.process_pdf                  *)
(*   SpecConstruct ImageExtractor.__init__ over a records file             *)
(*   SpecParser    MARCParser.process_directory over catalog files         *)
(*   SpecUrls      one call of MARCParser.extract_pdf_filename             *)
(* Text is a sequence of one-character strings wherever the code looks     *)
(* inside it (regular expressions, slices, comparisons); opaque names are  *)
(* TLA+ strings.                                                           *)
(***************************************************************************)
EXTENDS Integers, Sequences, FiniteSets, TLC

VARIABLES
    \* ---- ImageExtractor (extractor.py) ----
    df,              \* self.df: the record table after __init__, a sequence of rows
    image_metadata,  \* self.image_metadata
    books,           \* the books/ directory: path -> document, or NoFile
    disk,            \* the image files under output_dir: file name -> bytes
    manifest,        \* output_dir/images_metadata.json, or NoManifest
    row,             \* process_all_books: number of rows of df already iterated
    epc,             \* position of the batch: "loop", "done", "crashed"
    clock,           \* datetime.now(), counted in steps
    run,             \* 1: first run of main(); 2: the run repeated on the same disk
    results,         \* history: outcome of each process_pdf call of this run
    first_run,       \* history: image ids and disk at the end of run 1
    \* ---- select_pages harness ----
    sp_arg,          \* the last total_pages passed to select_pages
    sp_result,       \* what that call returned
    \* ---- extract_pdf_filename harness ----
    urls_arg,        \* the last url list passed to extract_pdf_filename
    urls_result,     \* what that call returned
    \* ---- ImageExtractor.__init__ ----
    marc_json,       \* the records file at marc_json_path: a sequence of objects
    \* ---- MARCParser (marc_parser.py) ----
    unknown_fields,          \* self.unknown_fields
    unknown_field_examples,  \* self.unknown_field_examples
    todo,            \* process_directory: the *.mrc files not yet iterated
    ppc,             \* position of process_directory: "idle", "reading", "done"
    marc_file,       \* parse_file: the file being read
    records,         \* parse_file: records
    all_records,     \* process_directory: all_records
    json_records,    \* the records file process_directory writes, and its return value
    nread,           \* the number of records the readers have yielded
    calls,           \* history: the (tag, value) of every log_unknown_field call
    last_parse,      \* history: the last record read, and what became of it
    reported,        \* the files process_directory printed an error for
    file_log         \* history: each file iterated, and what parse_file returned

extractor_vars == <<df, image_metadata, books, disk, manifest, row, epc, clock,
                    run, results, first_run>>
select_vars == <<sp_arg, sp_result>>
input_vars == <<urls_arg, urls_result, marc_json>>
parser_vars == <<unknown_fields, unknown_field_examples, todo, ppc, marc_file,
                 records, all_records, json_records, nread, calls, last_parse,
                 reported, file_log>>
vars == <<extractor_vars, select_vars, input_vars, parser_vars>>

(***************************************************************************)
(* Bounds of the model.                                                    *)
(***************************************************************************)
MaxBooks == 2          \* rows in the record table
MaxPages == 120        \* largest total_pages given to select_pages or process_pdf alone
MaxRecords == 2        \* catalog records read in one run of process_directory

(***************************************************************************)
(* ImageExtractor.select_pages                                             *)
(***************************************************************************)
\* list(range(start, stop, step)) for step > 0
PyRange(start, stop, step) ==
    LET n == IF stop > start THEN (stop - start + step - 1) \div step ELSE 0
    IN  [i \in 1..n |-> start + (i - 1) * step]

\* a slip in the first threshold: <= 50 instead of < 50
select_pages_le50(doc, total_pages) ==
    LET start_page == 5
        end_page == total_pages - 5
        step == IF total_pages <= 50 THEN 5
                ELSE IF total_pages < 100 THEN 8
                ELSE 10
    IN  PyRange(start_page, end_page, step)

\* one step of 10 for every document length
select_pages_step10(doc, total_pages) ==
    PyRange(5, total_pages - 5, 10)

select_pages(doc, total_pages) ==
    LET start_page == 5
        end_page == total_pages - 5
        step == IF total_pages < 50 THEN 5
                ELSE IF total_pages < 100 THEN 8
                ELSE 10
    IN  PyRange(start_page, end_page, step)

(***************************************************************************)
(* The documents under books/ and what PyMuPDF reports of them.            *)
(***************************************************************************)
NoFile == [missing |-> TRUE]
NoManifest == [written |-> FALSE]

PdfNames == {"ab1.pdf", "ab2.pdf"}
Years == {1780, 1800}
PageCounts == {8, 20, 60}
\* What the sampled pages of a document hold:
\*   "none"  no embedded image        "one"  one image on every page
\*   "two"   two images on every page
\*   the others: one image on every page, but page 5 holds three, the middle
\*   one of which  "nothing"        extract_image returns an empty result
\*                 "extract_raises" extract_image raises
\*                 "undecodable"    PIL cannot open the bytes (analyze_image raises)
Layouts == {"none", "one", "two", "nothing", "extract_raises", "undecodable"}
FaultLayouts == {"nothing", "extract_raises", "undecodable"}

\* a document of 8 pages has no sampled page, so its images are never read:
\* one such document stands for all of them
Docs == {d \in [total_pages : PageCounts, layout : Layouts] :
            d.total_pages <= 10 => d.layout = "one"}
Rows == [pdf_filename : PdfNames, year : Years,
         control_number : {"RU1"}, marc_file : {"a.mrc"}]

BookPath(pdf_filename) == "books/" \o pdf_filename
BookPaths == {BookPath(n) : n \in PdfNames}

\* one embedded image: its xref, what becomes of it, and its bytes
Image(p, i, kind) ==
    [xref |-> 100 * p + i, kind |-> kind, ext |-> "png",
     image |-> <<p, i, 7>>]

\* page.get_images() of page p
get_images(doc, p) ==
    IF doc.layout = "none" THEN <<>>
    ELSE IF doc.layout = "two" THEN <<Image(p, 1, "ok"), Image(p, 2, "ok")>>
    ELSE IF doc.layout \in FaultLayouts /\ p = 5
         THEN <<Image(p, 1, "ok"), Image(p, 2, doc.layout), Image(p, 3, "ok")>>
    ELSE <<Image(p, 1, "ok")>>

(***************************************************************************)
(* ImageExtractor.generate_image_id                                        *)
(***************************************************************************)
\* hashlib.md5(s).hexdigest()[:12]: a digest of the string. The digest is
\* kept symbolic: equal strings give equal digests, and distinct strings are
\* taken to give distinct digests (the 48-bit prefix is not computed).
md5_hex12(unique_string) == "md5:" \o unique_string

\* an id that also depends on when it is generated
generate_image_id_clock(pdf_path, page_num, image_num) ==
    md5_hex12(pdf_path \o "_" \o ToString(page_num) \o "_" \o ToString(image_num)
              \o "_" \o ToString(clock))

generate_image_id(pdf_path, page_num, image_num) ==
    LET unique_string ==
            pdf_path \o "_" \o ToString(page_num) \o "_" \o ToString(image_num)
    IN  md5_hex12(unique_string)

\* analyze_image: the properties PIL reads (width, height and mode are passed
\* through from the library and carry no logic; size_bytes is len(image_bytes))
analyze_image(image_bytes) == [size_bytes |-> Len(image_bytes)]

\* open(image_path, "wb").write(bytes): creates or replaces the file
WriteFile(d, name, bytes) ==
    [f \in DOMAIN d \cup {name} |-> IF f = name THEN bytes ELSE d[f]]

(***************************************************************************)
(* ImageExtractor.process_pdf                                              *)
(* The result is [raised, error, meta, disk]: whether an exception left    *)
(* the function and where it was raised, the page_metadata built so far    *)
(* (returned only when nothing was raised), and the output directory       *)
(* afterwards.                                                             *)
(***************************************************************************)
\* a slip: image_index counts from 1
ProcessImage_one_based(call, page_num, image_list, i, acc) ==
    LET image == image_list[i]
        img_idx == i - 1
        image_id == generate_image_id(call.pdf_path, page_num, img_idx)
        image_filename == image_id \o "." \o image.ext
        image_analysis == analyze_image(image.image)
        metadata ==
            [image_id |-> image_id,
             source |-> [pdf_file |-> call.pdf_path,
                         marc_file |-> call.marc_record.marc_file,
                         control_number |-> call.marc_record.control_number,
                         year |-> call.marc_record.year],
             page_info |-> [page_number |-> page_num,
                            total_pages |-> call.total_pages,
                            relative_position |-> <<page_num, call.total_pages>>,
                            images_on_page |-> Len(image_list),
                            image_index |-> i],
             image_properties |-> [path |-> image_filename,
                                   extension |-> image.ext,
                                   size_bytes |-> image_analysis.size_bytes],
             extraction_metadata |->
                 [timestamp |-> clock,
                  xref |-> image.xref,
                  sampling_rate |-> call.total_pages \div Len(call.selected_pages)]]
        written == WriteFile(acc.disk, image_filename, image.image)
    IN  IF image.kind = "extract_raises"
        THEN [acc EXCEPT !.raised = TRUE, !.error = "extract_image"]
        ELSE IF image.kind = "nothing" THEN acc
        ELSE IF image.kind = "undecodable"
        THEN [acc EXCEPT !.raised = TRUE, !.error = "analyze_image"]
        \* the file is written, then the dictionary is built: the division
        ELSE IF Len(call.selected_pages) = 0
        THEN [acc EXCEPT !.raised = TRUE, !.error = "ZeroDivisionError",
                         !.disk = written]
        ELSE [acc EXCEPT !.disk = written, !.meta = Append(acc.meta, metadata)]

\* the body of the inner loop for image number i (1-based) of page page_num;
\* page_num / total_pages is kept as the pair <<page_num, total_pages>>;
\* call holds the locals of process_pdf: pdf_path, marc_record, total_pages,
\* selected_pages
ProcessImage(call, page_num, image_list, i, acc) ==
    LET image == image_list[i]
        img_idx == i - 1
        image_id == generate_image_id(call.pdf_path, page_num, img_idx)
        image_filename == image_id \o "." \o image.ext
        image_analysis == analyze_image(image.image)
        metadata ==
            [image_id |-> image_id,
             source |-> [pdf_file |-> call.pdf_path,
                         marc_file |-> call.marc_record.marc_file,
                         control_number |-> call.marc_record.control_number,
                         year |-> call.marc_record.year],
             page_info |-> [page_number |-> page_num,
                            total_pages |-> call.total_pages,
                            relative_position |-> <<page_num, call.total_pages>>,
                            images_on_page |-> Len(image_list),
                            image_index |-> img_idx],
             image_properties |-> [path |-> image_filename,
                                   extension |-> image.ext,
                                   size_bytes |-> image_analysis.size_bytes],
             extraction_metadata |->
                 [timestamp |-> clock,
                  xref |-> image.xref,
                  sampling_rate |-> call.total_pages \div Len(call.selected_pages)]]
        written == WriteFile(acc.disk, image_filename, image.image)
    IN  IF image.kind = "extract_raises"
        THEN [acc EXCEPT !.raised = TRUE, !.error = "extract_image"]
        ELSE IF image.kind = "nothing" THEN acc
        ELSE IF image.kind = "undecodable"
        THEN [acc EXCEPT !.raised = TRUE, !.error = "analyze_image"]
        \* the file is written, then the dictionary is built: the division
        ELSE IF Len(call.selected_pages) = 0
        THEN [acc EXCEPT !.raised = TRUE, !.error = "ZeroDivisionError",
                         !.disk = written]
        ELSE [acc EXCEPT !.disk = written, !.meta = Append(acc.meta, metadata)]

RECURSIVE ImageLoop(_, _, _, _, _)
ImageLoop(call, page_num, image_list, i, acc) ==
    IF acc.raised \/ i > Len(image_list) THEN acc
    ELSE ImageLoop(call, page_num, image_list, i + 1,
                   ProcessImage(call, page_num, image_list, i, acc))

RECURSIVE PageLoop(_, _, _, _)
PageLoop(call, doc, k, acc) ==
    IF acc.raised \/ k > Len(call.selected_pages) THEN acc
    ELSE LET page_num == call.selected_pages[k]
         IN  PageLoop(call, doc, k + 1,
                      ImageLoop(call, page_num, get_images(doc, page_num), 1, acc))

\* a slip: the sampling rate is computed once, before the loops
process_pdf_rate_hoisted(pdf_path, marc_record) ==
    IF books[pdf_path] = NoFile
    THEN [raised |-> TRUE, error |-> "fitz.open", meta |-> <<>>, disk |-> disk]
    ELSE LET doc == books[pdf_path]
             total_pages == doc.total_pages
             selected_pages == select_pages(doc, total_pages)
             call == [pdf_path |-> pdf_path, marc_record |-> marc_record,
                      total_pages |-> total_pages,
                      selected_pages |-> selected_pages]
         IN  IF Len(selected_pages) = 0
             THEN [raised |-> TRUE, error |-> "ZeroDivisionError",
                   meta |-> <<>>, disk |-> disk]
             ELSE PageLoop(call, doc, 1,
                           [raised |-> FALSE, error |-> "", meta |-> <<>>,
                            disk |-> disk])

process_pdf(pdf_path, marc_record) ==
    IF books[pdf_path] = NoFile                            \* fitz.open raises
    THEN [raised |-> TRUE, error |-> "fitz.open", meta |-> <<>>, disk |-> disk]
    ELSE LET doc == books[pdf_path]
             total_pages == doc.total_pages
             selected_pages == select_pages(doc, total_pages)
             call == [pdf_path |-> pdf_path, marc_record |-> marc_record,
                      total_pages |-> total_pages,
                      selected_pages |-> selected_pages]
         IN  PageLoop(call, doc, 1,
                      [raised |-> FALSE, error |-> "", meta |-> <<>>,
                       disk |-> disk])

(***************************************************************************)
(* ImageExtractor.get_year_distribution and save_metadata                  *)
(***************************************************************************)
RECURSIVE SortedSeq(_)
SortedSeq(S) ==
    IF S = {} THEN <<>>
    ELSE LET m == CHOOSE x \in S : \A y \in S : x <= y
         IN  <<m>> \o SortedSeq(S \ {m})

\* a slip: the documents of a year are counted, not its images
get_year_distribution_per_book(metadata) ==
    LET years == [k \in 1..Len(metadata) |-> metadata[k].source.year]
        keys == SortedSeq({years[k] : k \in 1..Len(years)})
    IN  [j \in 1..Len(keys) |->
            <<keys[j], Cardinality({metadata[k].source.pdf_file :
                                       k \in {n \in 1..Len(years) : years[n] = keys[j]}})>>]

\* pd.Series(years).value_counts().sort_index().to_dict(): the years that
\* occur, ascending, each with its number of occurrences
get_year_distribution(metadata) ==
    LET years == [k \in 1..Len(metadata) |-> metadata[k].source.year]
        keys == SortedSeq({years[k] : k \in 1..Len(years)})
    IN  [j \in 1..Len(keys) |->
            <<keys[j], Cardinality({k \in 1..Len(years) : years[k] = keys[j]})>>]

\* the package save_metadata dumps; a / b is kept as the pair <<a, b>>
metadata_package(metadata, table) ==
    [written |-> TRUE,
     dataset_info |->
        [total_images |-> Len(metadata),
         total_books |-> Len(table),
         creation_date |-> clock,
         year_distribution |-> get_year_distribution(metadata),
         average_images_per_book |-> <<Len(metadata), Len(table)>>],
     images |-> metadata]

(***************************************************************************)
(* The batch: ImageExtractor.process_all_books, one row per step.          *)
(***************************************************************************)
ExtractorInit ==
    /\ df \in UNION {[1..n -> Rows] : n \in 0..MaxBooks}
    /\ books \in [BookPaths -> Docs \cup {NoFile}]
    /\ image_metadata = <<>>
    /\ disk = <<>>
    /\ manifest = NoManifest
    /\ row = 0
    /\ epc = "loop"
    /\ clock = 0
    /\ run = 1
    /\ results = <<>>
    /\ first_run = [ids |-> <<>>, disk |-> <<>>, results |-> <<>>]

\* a slip: no try/except, an exception of process_pdf leaves the loop
ProcessBook_no_except ==
    /\ epc = "loop"
    /\ row < Len(df)
    /\ LET r == df[row + 1]
           marc_record == [marc_file |-> r.marc_file,
                           control_number |-> r.control_number,
                           year |-> r.year]
           pdf_path == BookPath(r.pdf_filename)
           out == process_pdf(pdf_path, marc_record)
       IN  /\ disk' = out.disk
           /\ image_metadata' = IF out.raised THEN image_metadata
                                ELSE image_metadata \o out.meta
           /\ results' = Append(results,
                                [pdf_path |-> pdf_path,
                                 raised |-> out.raised,
                                 error |-> out.error,
                                 page_metadata |-> IF out.raised THEN <<>>
                                                   ELSE out.meta])
    /\ row' = row + 1
    /\ clock' = clock + 1
    /\ epc' = IF process_pdf(BookPath(df[row + 1].pdf_filename),
                              [marc_file |-> df[row + 1].marc_file,
                               control_number |-> df[row + 1].control_number,
                               year |-> df[row + 1].year]).raised
              THEN "crashed" ELSE epc
    /\ UNCHANGED <<df, books, manifest, run, first_run,
                   select_vars, input_vars, parser_vars>>

\* one iteration of the for loop: process_pdf inside try/except
ProcessBook ==
    /\ epc = "loop"
    /\ row < Len(df)
    /\ LET r == df[row + 1]
           marc_record == [marc_file |-> r.marc_file,
                           control_number |-> r.control_number,
                           year |-> r.year]
           pdf_path == BookPath(r.pdf_filename)
           out == process_pdf(pdf_path, marc_record)
       IN  /\ disk' = out.disk
           /\ image_metadata' = IF out.raised THEN image_metadata
                                ELSE image_metadata \o out.meta
           /\ results' = Append(results,
                                [pdf_path |-> pdf_path,
                                 raised |-> out.raised,
                                 error |-> out.error,
                                 page_metadata |-> IF out.raised THEN <<>>
                                                   ELSE out.meta])
    /\ row' = row + 1
    /\ clock' = clock + 1
    /\ UNCHANGED <<df, books, manifest, epc, run, first_run,
                   select_vars, input_vars, parser_vars>>

\* save_metadata, called after the loop. The dictionary is built before the
\* file is opened: len(...) / len(self.df) with an empty table raises
\* ZeroDivisionError and nothing is written.
SaveMetadata ==
    /\ epc = "loop"
    /\ row = Len(df)
    /\ IF Len(df) = 0
       THEN /\ epc' = "crashed"
            /\ UNCHANGED manifest
       ELSE /\ epc' = "done"
            /\ manifest' = metadata_package(image_metadata, df)
    /\ clock' = clock + 1
    /\ UNCHANGED <<df, image_metadata, books, disk, row, run, results,
                   first_run, select_vars, input_vars, parser_vars>>

\* main() is run again: a new ImageExtractor over the same table, the same
\* books and the output directory the first run left
Rerun ==
    /\ run = 1
    /\ epc \in {"done", "crashed"}
    /\ run' = 2
    /\ first_run' = [ids |-> [k \in 1..Len(image_metadata) |->
                                  image_metadata[k].image_id],
                     disk |-> disk,
                     results |-> results]
    /\ image_metadata' = <<>>
    /\ results' = <<>>
    /\ row' = 0
    /\ epc' = "loop"
    /\ clock' = clock + 1
    /\ UNCHANGED <<df, books, disk, manifest, select_vars, input_vars, parser_vars>>


(***************************************************************************)
(* MARCParser (marc_parser.py)                                             *)
(***************************************************************************)
\* Python's None where the code yields it in place of a text: a sequence no
\* text equals (the elements of a text are single characters)
None == <<"None">>

DigitChars == <<"0", "1", "2", "3", "4", "5", "6", "7", "8", "9">>
Digits == {DigitChars[i] : i \in 1..Len(DigitChars)}
LowerCase == {"a", "b", "c", "d", "e", "f", "g", "h", "i", "j", "k", "l", "m",
              "n", "o", "p", "q", "r", "s", "t", "u", "v", "w", "x", "y", "z"}
UpperCase == {"A", "B", "C", "D", "E", "F", "G", "H", "I", "J", "K", "L", "M",
              "N", "O", "P", "Q", "R", "S", "T", "U", "V", "W", "X", "Y", "Z"}
IsDigit(c) == c \in Digits                                  \* \d
IsLower(c) == c \in LowerCase                               \* [a-z]
IsWord(c) == c \in Digits \cup LowerCase \cup UpperCase \cup {"_"}   \* \w

\* the code point of a character of a tag
CodePoint(c) == 47 + (CHOOSE i \in 1..Len(DigitChars) : DigitChars[i] = c)

\* a < b on Python strings
RECURSIVE StrLess(_, _)
StrLess(a, b) ==
    IF b = <<>> THEN FALSE
    ELSE IF a = <<>> THEN TRUE
    ELSE IF a[1] = b[1] THEN StrLess(Tail(a), Tail(b))
    ELSE CodePoint(a[1]) < CodePoint(b[1])

\* the text as one TLA+ string (a dictionary key)
RECURSIVE Str(_)
Str(s) == IF s = <<>> THEN "" ELSE s[1] \o Str(Tail(s))

SetMin(S) == CHOOSE x \in S : \A y \in S : x <= y

FIELD_NAMES ==
    ("001" :> "Control Number") @@
    ("005" :> "Date and Time of Latest Transaction") @@
    ("100" :> "Main Entry - Personal Name") @@
    ("101" :> "Language Code") @@
    ("102" :> "Country of Publication") @@
    ("135" :> "Material Designation") @@
    ("140" :> "Coded Data Field") @@
    ("200" :> "Title Statement") @@
    ("210" :> "Publication, Distribution, etc.") @@
    ("215" :> "Physical Description") @@
    ("305" :> "Note - Data") @@
    ("310" :> "Note - Binding Information") @@
    ("314" :> "Note - Responsibility") @@
    ("316" :> "Note - Copy Information") @@
    ("317" :> "Provenance Note") @@
    ("321" :> "General Note") @@
    ("325" :> "General Note") @@
    ("399" :> "Local Note") @@
    ("454" :> "Translation Of") @@
    ("517" :> "Other Variant Titles") @@
    ("518" :> "Title in Standard Modern Spelling") @@
    ("620" :> "Subject Added Entry") @@
    ("700" :> "Added Entry - Personal Name") @@
    ("702" :> "Added Entry - Personal Name") @@
    ("712" :> "Added Entry - Corporate Name") @@
    ("801" :> "Source of Cataloging") @@
    ("852" :> "Location") @@
    ("856" :> "Electronic Location and Access") @@
    ("899" :> "Local Note") @@
    ("105" :> "Field of Coded Data: Textual Resources, Monographic") @@
    ("205" :> "Edition Statement") @@
    ("300" :> "General Notes") @@
    ("303" :> "Note - Data") @@
    ("304" :> "Note - Bibliography") @@
    ("306" :> "Note - Data") @@
    ("307" :> "Note - Data") @@
    ("327" :> "Notes About Contents") @@
    ("451" :> "Other Edition on Similar Medium") @@
    ("461" :> "Set Level") @@
    ("481" :> "Also Bound in This Volume") @@
    ("482" :> "Bound With") @@
    ("600" :> "Personal Name Used as Subject") @@
    ("606" :> "Topical Name Used as Subject") @@
    ("686" :> "Other Classification Numbers") @@
    ("701" :> "Personal Name - Alternative Responsibility") @@
    ("790" :> "Personal Name - Alternative Form") @@
    ("035" :> "Other System Numbers") @@
    ("320" :> "Bibliography / Index Note") @@
    ("330" :> "Summary or Abstract") @@
    ("412" :> "Source of Excerpt or Offprint") @@
    ("422" :> "Parent of Supplement") @@
    ("464" :> "Analytical Level") @@
    ("488" :> "Other Related Works") @@
    ("510" :> "Parallel Title") @@
    ("513" :> "Added Title-Page Title") @@
    ("514" :> "Caption Title") @@
    ("601" :> "Corporate Body Name Used as Subject") @@
    ("602" :> "Family Name Used as Subject") @@
    ("607" :> "Geographical Name Used as Subject") @@
    ("610" :> "Uncontrolled Subject Terms") @@
    ("710" :> "Corporate Body Name - Primary Responsibility") @@
    ("711" :> "Corporate Body Name - Alternative Responsibility") @@
    ("722" :> "Family Name - Secondary Responsibility") @@
    ("791" :> "Corporate Body Name - Alternative Form") @@
    ("830" :> "General Note")

\* value[:200]
ExampleLen == 200

\* the tracker a MARCParser is constructed with
NewTracker == [unknown_fields |-> <<>>, unknown_field_examples |-> <<>>]

\* a slip: the example is stored on every call, not only on the first
log_unknown_field_overwrite(self, tag, value) ==
    LET seen == DOMAIN self.unknown_fields
        count == IF tag \in seen THEN self.unknown_fields[tag] ELSE 0
        example == SubSeq(value, 1, IF Len(value) < ExampleLen THEN Len(value) ELSE ExampleLen)
    IN  [unknown_fields |->
             [t \in seen \cup {tag} |->
                 IF t = tag THEN count + 1 ELSE self.unknown_fields[t]],
         unknown_field_examples |->
             [t \in DOMAIN self.unknown_field_examples \cup {tag} |->
                 IF t = tag THEN example ELSE self.unknown_field_examples[t]]]

\* self is the pair of self.unknown_fields (a Counter: an absent tag counts 0)
\* and self.unknown_field_examples; the result is self after the call
log_unknown_field(self, tag, value) ==
    LET seen == DOMAIN self.unknown_fields
        count == IF tag \in seen THEN self.unknown_fields[tag] ELSE 0
        example == SubSeq(value, 1, IF Len(value) < ExampleLen THEN Len(value) ELSE ExampleLen)
    IN  [unknown_fields |->
             [t \in seen \cup {tag} |->
                 IF t = tag THEN count + 1 ELSE self.unknown_fields[t]],
         unknown_field_examples |->
             IF tag \in DOMAIN self.unknown_field_examples
             THEN self.unknown_field_examples
             ELSE [t \in DOMAIN self.unknown_field_examples \cup {tag} |->
                     IF t = tag THEN example ELSE self.unknown_field_examples[t]]]

\* sub in s
Contains(s, sub) ==
    \E i \in 1..(Len(s) - Len(sub) + 1) : SubSeq(s, i, i + Len(sub) - 1) = sub

\* the last index of the run of digits that starts at j (j - 1 if none does)
RECURSIVE DigitsEnd(_, _)
DigitsEnd(s, j) ==
    IF j <= Len(s) /\ IsDigit(s[j]) THEN DigitsEnd(s, j + 1) ELSE j - 1

\* '/([a-z]{2}\d+)/' matched at index i of url: the index of the last digit
\* of the identifier, 0 when there is no match at i
IdEndAt(url, i) ==
    IF /\ i + 4 <= Len(url)
       /\ url[i] = "/" /\ IsLower(url[i + 1]) /\ IsLower(url[i + 2])
       /\ IsDigit(url[i + 3])
       /\ DigitsEnd(url, i + 3) + 1 <= Len(url)
       /\ url[DigitsEnd(url, i + 3) + 1] = "/"
    THEN DigitsEnd(url, i + 3)
    ELSE 0

\* 'view(?:#.*)?$' matched at index j of url, the index after the second '/':
\* after 'view' the text ends, or only a final newline follows, or '#' and
\* characters other than newline follow up to the end or a final newline
ViewTailAt(url, j) ==
    /\ j + 3 <= Len(url)
    /\ SubSeq(url, j, j + 3) = <<"v", "i", "e", "w">>
    /\ LET rest == SubSeq(url, j + 4, Len(url))
       IN  \/ rest = <<>>
           \/ rest = <<"\n">>
           \/ /\ rest[1] = "#"
              /\ \A n \in 2..(Len(rest) - 1) : rest[n] # "\n"

\* re.search(r'/([a-z]{2}\d+)/view(?:#.*)?$', url): the indices where it matches
StrictMatches(url) ==
    {i \in 1..Len(url) : IdEndAt(url, i) # 0 /\ ViewTailAt(url, IdEndAt(url, i) + 2)}

\* re.search(r'/([a-z]{2}\d+)/', url): the indices where it matches
LooseMatches(url) == {i \in 1..Len(url) : IdEndAt(url, i) # 0}

\* f"{match.group(1)}.pdf" of the leftmost match
PdfName(url, matches) ==
    LET i == SetMin(matches)
    IN  SubSeq(url, i + 1, IdEndAt(url, i)) \o <<".", "p", "d", "f">>

\* a slip: the loose pattern is tried before the strict one
RECURSIVE UrlLoop_loose_first(_, _)
UrlLoop_loose_first(urls, k) ==
    IF k > Len(urls) THEN None
    ELSE LET url == urls[k]
         IN  IF ~Contains(url, <<"/", "v", "i", "e", "w">>)
             THEN UrlLoop_loose_first(urls, k + 1)
             ELSE IF LooseMatches(url) # {} THEN PdfName(url, LooseMatches(url))
             ELSE IF StrictMatches(url) # {} THEN PdfName(url, StrictMatches(url))
             ELSE UrlLoop_loose_first(urls, k + 1)

extract_pdf_filename_loose_first(urls) == UrlLoop_loose_first(urls, 1)

\* a slip: the test '"/view" in url' is left out
RECURSIVE UrlLoop_any_url(_, _)
UrlLoop_any_url(urls, k) ==
    IF k > Len(urls) THEN None
    ELSE LET url == urls[k]
         IN  IF StrictMatches(url) # {} THEN PdfName(url, StrictMatches(url))
             ELSE IF LooseMatches(url) # {} THEN PdfName(url, LooseMatches(url))
             ELSE UrlLoop_any_url(urls, k + 1)

extract_pdf_filename_any_url(urls) == UrlLoop_any_url(urls, 1)

\* for url in urls: ... return None
RECURSIVE UrlLoop(_, _)
UrlLoop(urls, k) ==
    IF k > Len(urls) THEN None
    ELSE LET url == urls[k]
         IN  IF ~Contains(url, <<"/", "v", "i", "e", "w">>) THEN UrlLoop(urls, k + 1)
             ELSE IF StrictMatches(url) # {} THEN PdfName(url, StrictMatches(url))
             ELSE IF LooseMatches(url) # {} THEN PdfName(url, LooseMatches(url))
             ELSE UrlLoop(urls, k + 1)

extract_pdf_filename(urls) == UrlLoop(urls, 1)

\* r'\b(\d{4})\b' matched at index i of value
YearAt(value, i) ==
    /\ i + 3 <= Len(value)
    /\ \A j \in i..(i + 3) : IsDigit(value[j])
    /\ (i = 1 \/ ~IsWord(value[i - 1]))
    /\ (i + 3 = Len(value) \/ ~IsWord(value[i + 4]))

extract_year(value) ==
    LET matches == {i \in 1..Len(value) : YearAt(value, i)}
    IN  IF matches = {} THEN None
        ELSE SubSeq(value, SetMin(matches), SetMin(matches) + 3)

(***************************************************************************)
(* MARCParser.parse_file and process_directory                             *)
(***************************************************************************)
Tag001 == <<"0", "0", "1">>
Tag010 == <<"0", "1", "0">>
Tag210 == <<"2", "1", "0">>
Tag856 == <<"8", "5", "6">>
UnknownID == <<"U", "n", "k", "n", "o", "w", "n", " ", "I", "D">>

\* A field as pymarc hands it over: its tag, its text (field.data of a control
\* field, field.value() of a data field), the flat subfield list
\* [code, value, code, value, ...], whether field.value() raises, and whether
\* the object is false in a condition.
MarcField(tag, text, subfields, value_raises, falsy) ==
    [tag |-> tag, text |-> text, subfields |-> subfields,
     value_raises |-> value_raises, falsy |-> falsy]

LongText == [i \in 1..(ExampleLen + 1) |-> "x"]

\* the fields the catalog files of the model are made of
F001 == MarcField(Tag001, <<"R", "1">>, <<>>, FALSE, FALSE)
F001Empty == MarcField(Tag001, <<>>, <<>>, FALSE, FALSE)
F210Year == MarcField(Tag210, <<"P", " ", "1", "7", "8", "0">>, <<"a", <<"P">>, "d", <<"1", "7", "8", "0">>>>, FALSE, FALSE)
F210NoYear == MarcField(Tag210, <<"s", "n">>, <<"c", <<"s", "n">>>>, FALSE, FALSE)
F856 == MarcField(Tag856, <<"/", "a", "b", "1", "/", "v", "i", "e", "w">>, <<"u", <<"/", "a", "b", "1", "/", "v", "i", "e", "w">>>>, FALSE, FALSE)
F999Long == MarcField(<<"9", "9", "9">>, LongText, <<"a", LongText>>, FALSE, FALSE)
F999Short == MarcField(<<"9", "9", "9">>, <<"y">>, <<"a", <<"y">>>>, FALSE, FALSE)
F999Raises == MarcField(<<"9", "9", "9">>, <<>>, <<"a">>, TRUE, FALSE)
F200Raises == MarcField(<<"2", "0", "0">>, <<>>, <<"a">>, TRUE, FALSE)
F005Falsy == MarcField(<<"0", "0", "5">>, <<"2", "0", "2", "4">>, <<>>, FALSE, TRUE)

FieldInputs ==
    {F001, F001Empty, F210Year, F210NoYear, F856, F999Long, F999Short,
     F999Raises, F200Raises, F005Falsy}

\* the records a catalog file may hold: no field, any one field, or one of
\* these pairs
RecordInputs ==
    {<<>>} \cup {<<f>> : f \in FieldInputs} \cup
    { <<F001, F210Year>>, <<F001, F856>>, <<F001Empty, F001>>,
      <<F210Year, F210NoYear>>, <<F210NoYear, F210Year>>,
      <<F001, F999Raises>>, <<F999Raises, F001>>,
      <<F200Raises, F856>>, <<F001, F200Raises>>,
      <<F999Long, F999Short>>, <<F999Short, F999Long>>,
      <<F005Falsy, F001>> }

FileNames == {"a.mrc", "b.mrc"}

\* [{"code": code, "value": value} for code, value in
\*  zip(field.subfields[::2], field.subfields[1::2])]
SubfieldPairs(subfields) ==
    [j \in 1..(Len(subfields) \div 2) |->
        [code |-> subfields[2 * j - 1], value |-> subfields[2 * j]]]

\* The body of `for field in record`. acc holds the locals of the record
\* (fields, urls, year), the parser (self), the log_unknown_field calls made,
\* and whether an exception has left the loop.
FieldStep(field, acc) ==
    IF field.falsy THEN acc
    ELSE IF Str(field.tag) \notin DOMAIN FIELD_NAMES /\ field.value_raises
    THEN [acc EXCEPT !.raised = TRUE]      \* field.value() outside the try
    ELSE
    LET known == Str(field.tag) \in DOMAIN FIELD_NAMES
        logged == IF known THEN acc
                  ELSE [acc EXCEPT
                           !.self = log_unknown_field(acc.self, field.tag, field.text),
                           !.logged = Append(acc.logged, <<field.tag, field.text>>)]
        field_name == IF known THEN FIELD_NAMES[Str(field.tag)] ELSE "Unknown Field"
    IN  IF StrLess(field.tag, Tag010)
        THEN [logged EXCEPT
                 !.fields = Append(@, [tag |-> field.tag, name |-> field_name,
                                       value |-> field.text, subfields |-> <<>>])]
        ELSE IF field.value_raises THEN logged      \* except: continue
        ELSE LET field_value == field.text
             IN  [logged EXCEPT
                     !.urls = IF field.tag = Tag856 THEN Append(@, field_value) ELSE @,
                     !.year = IF field.tag = Tag210 THEN extract_year(field_value) ELSE @,
                     !.fields = Append(@, [tag |-> field.tag, name |-> field_name,
                                           value |-> field_value,
                                           subfields |-> SubfieldPairs(field.subfields)])]

RECURSIVE FieldLoop(_, _, _)
FieldLoop(record, k, acc) ==
    IF acc.raised \/ k > Len(record) THEN acc
    ELSE FieldLoop(record, k + 1, FieldStep(record[k], acc))

\* The body of `for record in reader`: [raised, self, logged, record], record
\* being the MARCRecord appended when nothing was raised. (In a MARCField,
\* subfields = None is the empty sequence: the code stores a list only when
\* it is not empty.)
parse_record(self, record, file_name) ==
    LET with001 == {i \in 1..Len(record) : record[i].tag = Tag001}
        start == [raised |-> FALSE, self |-> self, logged |-> <<>>,
                  fields |-> <<>>, urls |-> <<>>, year |-> <<>>]
    IN  IF with001 # {} /\ record[SetMin(with001)].value_raises
        THEN [raised |-> TRUE, self |-> self, logged |-> <<>>, record |-> <<>>]
        ELSE LET control_number == IF with001 # {} THEN record[SetMin(with001)].text
                                   ELSE UnknownID
                 acc == FieldLoop(record, 1, start)
             IN  [raised |-> acc.raised, self |-> acc.self, logged |-> acc.logged,
                  record |-> IF acc.raised THEN <<>>
                             ELSE [control_number |-> control_number,
                                   fields |-> acc.fields,
                                   marc_file |-> file_name,
                                   urls |-> acc.urls,
                                   pdf_filename |-> extract_pdf_filename(acc.urls),
                                   year |-> acc.year]]

NotParsed == [parsed |-> FALSE]
NotWritten == [written |-> FALSE]

ParserInit ==
    /\ unknown_fields = NewTracker.unknown_fields
    /\ unknown_field_examples = NewTracker.unknown_field_examples
    /\ todo = FileNames
    /\ ppc = "idle"
    /\ marc_file = ""
    /\ records = <<>>
    /\ all_records = <<>>
    /\ json_records = NotWritten
    /\ nread = 0
    /\ calls = <<>>
    /\ last_parse = NotParsed
    /\ reported = {}
    /\ file_log = <<>>

\* process_directory takes the next file of the glob; parse_file opens it
OpenFile ==
    /\ ppc = "idle"
    /\ \E f \in todo :
          /\ todo' = todo \ {f}
          /\ marc_file' = f
    /\ ppc' = "reading"
    /\ records' = <<>>
    /\ UNCHANGED <<unknown_fields, unknown_field_examples, all_records,
                   json_records, nread, calls, last_parse, reported, file_log,
                   extractor_vars, select_vars, input_vars>>

\* open(file_path, 'rb') raises: process_directory prints the error and goes on
OpenFails ==
    /\ ppc = "idle"
    /\ \E f \in todo :
          /\ todo' = todo \ {f}
          /\ reported' = reported \cup {f}
          /\ file_log' = Append(file_log, [marc_file |-> f, ok |-> FALSE,
                                           records |-> <<>>])
    /\ UNCHANGED <<ppc, marc_file, records, unknown_fields, unknown_field_examples,
                   all_records, json_records, nread, calls, last_parse,
                   extractor_vars, select_vars, input_vars>>

\* a slip: the records read before the failure are kept
ReadRecord_keeps_partial ==
    /\ ppc = "reading"
    /\ nread < MaxRecords
    /\ nread' = nread + 1
    /\ \E record \in RecordInputs :
          LET self == [unknown_fields |-> unknown_fields,
                       unknown_field_examples |-> unknown_field_examples]
              out == parse_record(self, record, marc_file)
          IN  /\ unknown_fields' = out.self.unknown_fields
              /\ unknown_field_examples' = out.self.unknown_field_examples
              /\ calls' = calls \o out.logged
              /\ last_parse' = [parsed |-> TRUE, input |-> record,
                                raised |-> out.raised, record |-> out.record]
              /\ IF out.raised
                 THEN /\ records' = <<>>
                      /\ ppc' = "idle"
                      /\ reported' = reported \cup {marc_file}
                      /\ all_records' = all_records \o records
                      /\ file_log' = Append(file_log,
                                            [marc_file |-> marc_file, ok |-> FALSE,
                                             records |-> <<>>])
                 ELSE /\ records' = Append(records, out.record)
                      /\ ppc' = "reading"
                      /\ UNCHANGED <<reported, file_log, all_records>>
    /\ UNCHANGED <<todo, marc_file, json_records,
                   extractor_vars, select_vars, input_vars>>

\* the reader yields one more record and parse_file processes it; an
\* exception leaves parse_file, whose records are lost, and process_directory
\* goes on with the next file
ReadRecord ==
    /\ ppc = "reading"
    /\ nread < MaxRecords
    /\ nread' = nread + 1
    /\ \E record \in RecordInputs :
          LET self == [unknown_fields |-> unknown_fields,
                       unknown_field_examples |-> unknown_field_examples]
              out == parse_record(self, record, marc_file)
          IN  /\ unknown_fields' = out.self.unknown_fields
              /\ unknown_field_examples' = out.self.unknown_field_examples
              /\ calls' = calls \o out.logged
              /\ last_parse' = [parsed |-> TRUE, input |-> record,
                                raised |-> out.raised, record |-> out.record]
              /\ IF out.raised
                 THEN /\ records' = <<>>
                      /\ ppc' = "idle"
                      /\ reported' = reported \cup {marc_file}
                      /\ file_log' = Append(file_log,
                                            [marc_file |-> marc_file, ok |-> FALSE,
                                             records |-> <<>>])
                 ELSE /\ records' = Append(records, out.record)
                      /\ ppc' = "reading"
                      /\ UNCHANGED <<reported, file_log>>
    /\ UNCHANGED <<todo, marc_file, all_records, json_records,
                   extractor_vars, select_vars, input_vars>>

\* the reader raises on a malformed stream
ReaderFails ==
    /\ ppc = "reading"
    /\ records' = <<>>
    /\ ppc' = "idle"
    /\ reported' = reported \cup {marc_file}
    /\ file_log' = Append(file_log, [marc_file |-> marc_file, ok |-> FALSE,
                                     records |-> <<>>])
    /\ UNCHANGED <<todo, marc_file, unknown_fields, unknown_field_examples,
                   all_records, json_records, nread, calls, last_parse,
                   extractor_vars, select_vars, input_vars>>

\* the reader is exhausted: parse_file returns records, which
\* process_directory appends to all_records
CloseFile ==
    /\ ppc = "reading"
    /\ all_records' = all_records \o records
    /\ file_log' = Append(file_log, [marc_file |-> marc_file, ok |-> TRUE,
                                     records |-> records])
    /\ records' = <<>>
    /\ ppc' = "idle"
    /\ UNCHANGED <<todo, marc_file, unknown_fields, unknown_field_examples,
                   json_records, nread, calls, last_parse, reported,
                   extractor_vars, select_vars, input_vars>>

\* after the last file: the records file is written and the count returned
WriteRecords ==
    /\ ppc = "idle"
    /\ todo = {}
    /\ json_records' = [written |-> TRUE, records |-> all_records,
                        count |-> Len(all_records)]
    /\ ppc' = "done"
    /\ UNCHANGED <<todo, marc_file, records, unknown_fields,
                   unknown_field_examples, all_records, nread, calls, last_parse,
                   reported, file_log, extractor_vars, select_vars, input_vars>>

(***************************************************************************)
(* select_pages on its own                                                 *)
(***************************************************************************)
CallSelectPages ==
    /\ \E total_pages \in 0..MaxPages :
          /\ sp_arg' = total_pages
          /\ sp_result' = select_pages(NoFile, total_pages)
    /\ UNCHANGED <<extractor_vars, parser_vars, input_vars>>

(***************************************************************************)
(* extract_pdf_filename on its own                                         *)
(***************************************************************************)
MaxUrls == 2           \* urls in one list given to extract_pdf_filename

\* the values of the 856 $u subfields the calls are made with
UrlView == <<"/", "a", "b", "1", "/", "v", "i", "e", "w">>
UrlViewFragment == <<"/", "c", "d", "2", "2", "/", "v", "i", "e", "w", "#", "p">>
UrlLooseOnly == <<"/", "e", "f", "3", "/", "x", "/", "v", "i", "e", "w">>
UrlViewer == <<"/", "g", "h", "4", "/", "v", "i", "e", "w", "e", "r">>
UrlNoView == <<"/", "i", "j", "5", "/">>
UrlNoId == <<"/", "x", "/", "v", "i", "e", "w">>
UrlTwoIds == <<"/", "k", "l", "6", "/", "m", "n", "7", "/", "v", "i", "e", "w">>
UrlUpper == <<"/", "A", "B", "1", "/", "v", "i", "e", "w">>
UrlFragmentBreak ==
    <<"/", "o", "p", "8", "/", "q", "r", "9", "/", "v", "i", "e", "w", "#", "a", "\n", "b">>
UrlViewNewline == <<"/", "s", "t", "1", "/", "v", "i", "e", "w", "\n">>
UrlOther == <<"x">>
UrlInputs ==
    {UrlView, UrlViewFragment, UrlLooseOnly, UrlViewer, UrlNoView, UrlNoId,
     UrlTwoIds, UrlUpper, UrlFragmentBreak, UrlViewNewline, UrlOther}
UrlLists == UNION {[1..n -> UrlInputs] : n \in 0..MaxUrls}

\* one call; the function keeps no state, so a behaviour makes a single call
CallExtractPdfFilename ==
    /\ urls_arg = <<>>
    /\ \E urls \in UrlLists :
          /\ urls_arg' = <<"called", urls>>
          /\ urls_result' = extract_pdf_filename(urls)
    /\ UNCHANGED <<marc_json, extractor_vars, select_vars, parser_vars>>

(***************************************************************************)
(* ImageExtractor.__init__: the record table built from the records file   *)
(***************************************************************************)
\* the values of "year" and "pdf_filename" in the objects of the file
YearEmpty == <<>>
Year5780 == <<"5", "7", "8", "0">>
Year1784 == <<"1", "7", "8", "4">>
YearNotInt == <<"1", "7", "x", "x">>
JsonYears == {YearEmpty, Year5780, Year1784, YearNotInt, None}
JsonPdfNames == {<<"a", "b", "1", ".", "p", "d", "f">>,
                 <<"c", "d", "2", ".", "p", "d", "f">>,
                 None}
JsonRecords == [pdf_filename : JsonPdfNames, year : JsonYears,
                control_number : {"RU1"}, marc_file : {"a.mrc"}]
JsonFiles == UNION {[1..n -> JsonRecords] : n \in 0..MaxBooks}

\* int(s) accepts s: decimal digits
IsIntText(s) == Len(s) > 0 /\ \A n \in 1..Len(s) : IsDigit(s[n])

\* int(s)
RECURSIVE ParseInt(_)
ParseInt(s) ==
    IF s = <<>> THEN 0
    ELSE 10 * ParseInt(SubSeq(s, 1, Len(s) - 1)) + (CodePoint(s[Len(s)]) - 48)

\* A cell of the year column is <<"null">>, <<"str", text>> or <<"int", n>>.
\* pd.read_json: with numbers true the column was read as numbers (every
\* year of the file is null or numeric text and the reader's dtype inference
\* converted it), else the texts are kept as they are.
ReadYear(y, numbers) ==
    IF y = None THEN <<"null">>
    ELSE IF numbers THEN <<"int", ParseInt(y)>>
    ELSE <<"str", y>>

\* Series.replace(old, new) on one cell, old a text
ReplaceCell(cell, old, new) ==
    IF cell[1] = "str" /\ cell[2] = old THEN <<"int", new>> ELSE cell

\* self.df["year"].replace(old, new)
ReplaceYear(table, old, new) ==
    [k \in 1..Len(table) |->
        [table[k] EXCEPT !.year = ReplaceCell(table[k].year, old, new)]]

\* self.df.dropna(subset=["year"], inplace=True)
DropNaYear(table) == SelectSeq(table, LAMBDA r : r.year[1] # "null")

\* int(cell) of .astype(int)
CellInt(cell) == IF cell[1] = "int" THEN cell[2] ELSE ParseInt(cell[2])

\* __init__ up to the first statement that raises, or to its end:
\*   an empty file gives a table without columns, df["year"] raises KeyError;
\*   astype(int) raises ValueError on a text that is not an integer;
\*   a null pdf_filename makes the mask of str.contains hold NaN, which the
\*   selection refuses (and a column of nulls only, read as numbers, has no
\*   .str accessor)
ImageExtractor_init(file, infer) ==
    LET numbers == /\ infer
                   /\ \A k \in 1..Len(file) :
                         file[k].year = None \/ IsIntText(file[k].year)
        read == [k \in 1..Len(file) |->
                    [file[k] EXCEPT !.year = ReadYear(file[k].year, numbers)]]
        replaced == ReplaceYear(ReplaceYear(read, YearEmpty, 1800), Year5780, 1780)
        kept == DropNaYear(replaced)
        bad_year == \E k \in 1..Len(kept) :
                        kept[k].year[1] = "str" /\ ~IsIntText(kept[k].year[2])
        bad_name == \/ \E k \in 1..Len(kept) : kept[k].pdf_filename = None
                    \/ infer /\ \A k \in 1..Len(file) : file[k].pdf_filename = None
        typed == [k \in 1..Len(kept) |->
                    [pdf_filename |-> Str(kept[k].pdf_filename),
                     year |-> CellInt(kept[k].year),
                     control_number |-> kept[k].control_number,
                     marc_file |-> kept[k].marc_file]]
        with_b == {k \in 1..Len(kept) : Contains(kept[k].pdf_filename, <<"b">>)}
    IN  IF Len(file) = 0 \/ bad_year \/ bad_name
        THEN [raised |-> TRUE, df |-> <<>>]
        ELSE [raised |-> FALSE,
              df |-> [n \in 1..Cardinality(with_b) |->
                         typed[CHOOSE k \in with_b :
                                  Cardinality({j \in with_b : j <= k}) = n]]]

\* ImageExtractor(marc_json_path, ...) as main() constructs it
Construct ==
    /\ epc = "idle"
    /\ \E infer \in BOOLEAN :
          LET out == ImageExtractor_init(marc_json, infer)
          IN  /\ df' = out.df
              /\ epc' = IF out.raised THEN "init_failed" ELSE "loop"
    /\ image_metadata' = <<>>
    /\ UNCHANGED <<books, disk, manifest, row, clock, run, results, first_run,
                   marc_json, urls_arg, urls_result, select_vars, parser_vars>>

(***************************************************************************)
(* process_pdf on its own: one call on one document                        *)
(***************************************************************************)
PdfDocs == [total_pages : 1..MaxPages, layout : Layouts]
PdfArg == "books/ab1.pdf"
PdfRecord == [marc_file |-> "a.mrc", control_number |-> "RU1", year |-> 1800]

CallProcessPdf ==
    /\ epc = "idle"
    /\ LET out == process_pdf(PdfArg, PdfRecord)
       IN  /\ disk' = out.disk
           /\ results' = <<[pdf_path |-> PdfArg,
                            raised |-> out.raised,
                            error |-> out.error,
                            page_metadata |-> IF out.raised THEN <<>>
                                              ELSE out.meta]>>
    /\ epc' = "returned"
    /\ UNCHANGED <<df, image_metadata, books, manifest, row, clock, run,
                   first_run, select_vars, input_vars, parser_vars>>

(***************************************************************************)
(* The specifications. Each runs one part of the program; the variables of *)
(* the other parts stay as they are before that part starts.               *)
(***************************************************************************)
ExtractorIdle ==
    /\ df = <<>>
    /\ books = [p \in BookPaths |-> NoFile]
    /\ image_metadata = <<>>
    /\ disk = <<>>
    /\ manifest = NoManifest
    /\ row = 0
    /\ epc = "idle"
    /\ clock = 0
    /\ run = 1
    /\ results = <<>>
    /\ first_run = [ids |-> <<>>, disk |-> <<>>, results |-> <<>>]

SelectIdle == sp_arg = 0 /\ sp_result = <<>>

InputIdle == urls_arg = <<>> /\ urls_result = None /\ marc_json = <<>>

ParserIdle ==
    /\ unknown_fields = <<>>
    /\ unknown_field_examples = <<>>
    /\ todo = {}
    /\ ppc = "off"
    /\ marc_file = ""
    /\ records = <<>>
    /\ all_records = <<>>
    /\ json_records = NotWritten
    /\ nread = 0
    /\ calls = <<>>
    /\ last_parse = NotParsed
    /\ reported = {}
    /\ file_log = <<>>

\* a batch run of the extractor, and the same run repeated
Init == ExtractorInit /\ SelectIdle /\ InputIdle /\ ParserIdle
Next == ProcessBook \/ SaveMetadata \/ Rerun
Spec == Init /\ [][Next]_vars

\* calls of select_pages
InitSelect ==
    ExtractorIdle /\ InputIdle /\ ParserIdle /\ sp_arg = -1 /\ sp_result = <<>>
NextSelect == CallSelectPages
SpecSelect == InitSelect /\ [][NextSelect]_vars

\* process_directory over the catalog files
InitParser == ExtractorIdle /\ SelectIdle /\ InputIdle /\ ParserInit
NextParser ==
    OpenFile \/ OpenFails \/ ReadRecord \/ ReaderFails \/ CloseFile \/ WriteRecords
SpecParser == InitParser /\ [][NextParser]_vars

\* calls of extract_pdf_filename
InitUrls == ExtractorIdle /\ SelectIdle /\ InputIdle /\ ParserIdle
NextUrls == CallExtractPdfFilename
SpecUrls == InitUrls /\ [][NextUrls]_vars

\* one call of process_pdf, on any document
InitPdf ==
    /\ SelectIdle /\ InputIdle /\ ParserIdle
    /\ df = <<>>
    /\ books \in {[p \in BookPaths |-> IF p = PdfArg THEN d ELSE NoFile] :
                     d \in PdfDocs \cup {NoFile}}
    /\ image_metadata = <<>>
    /\ disk = <<>>
    /\ manifest = NoManifest
    /\ row = 0
    /\ epc = "idle"
    /\ clock = 0
    /\ run = 1
    /\ results = <<>>
    /\ first_run = [ids |-> <<>>, disk |-> <<>>, results |-> <<>>]
NextPdf == CallProcessPdf
SpecPdf == InitPdf /\ [][NextPdf]_vars

\* the construction of the extractor from a records file
InitConstruct ==
    /\ ExtractorIdle /\ SelectIdle /\ ParserIdle
    /\ urls_arg = <<>> /\ urls_result = None
    /\ marc_json \in JsonFiles
NextConstruct == Construct
SpecConstruct == InitConstruct /\ [][NextConstruct]_vars

(***************************************************************************)
(* Properties of the extractor                                             *)
(***************************************************************************)
Processed == 1..Len(results)
DocOf(k) == books[results[k].pdf_path]
ImageIds(metadata) == [k \in 1..Len(metadata) |-> metadata[k].image_id]
PageNumbers(metadata) == [k \in 1..Len(metadata) |-> metadata[k].page_info.page_number]

\* the step the page-sampling policy states for a document length
PolicyStep(total_pages) ==
    IF total_pages < 50 THEN 5 ELSE IF total_pages < 100 THEN 8 ELSE 10

C2_SixtyPagesStep8 ==
    \A k \in Processed :
        (DocOf(k) # NoFile /\ DocOf(k).total_pages = 60 /\ DocOf(k).layout = "one") =>
            /\ ~results[k].raised
            /\ PageNumbers(results[k].page_metadata) = <<5, 13, 21, 29, 37, 45, 53>>
            /\ \A j \in 1..Len(results[k].page_metadata) :
                  LET m == results[k].page_metadata[j]
                  IN  /\ m.page_info.images_on_page = 1
                      /\ m.page_info.relative_position = <<m.page_info.page_number, 60>>

C2_Witness ==
    \E k \in Processed :
        /\ DocOf(k) # NoFile /\ DocOf(k).total_pages = 60 /\ DocOf(k).layout = "one"
        /\ Len(results[k].page_metadata) = 7

\* C2 (as stated): a processed 60-page document with one image on every
\* sampled page is sampled at exactly the pages {5,15,25,35,45}, one record
\* per page with images_on_page = 1 and relative_position = page_number / 60.
C2_SixtyPagesStep10 ==
    \A k \in Processed :
        (DocOf(k) # NoFile /\ DocOf(k).total_pages = 60 /\ DocOf(k).layout = "one") =>
            /\ PageNumbers(results[k].page_metadata) = <<5, 15, 25, 35, 45>>
            /\ \A j \in 1..Len(results[k].page_metadata) :
                  LET m == results[k].page_metadata[j]
                  IN  /\ m.page_info.images_on_page = 1
                      /\ m.page_info.relative_position = <<m.page_info.page_number, 60>>

\* image number i of page p of processed document k has a record in the
\* metadata the call returned and in the batch's metadata, and its bytes are
\* in the file its id names
Recorded(k, p, i) ==
    LET image == get_images(DocOf(k), p)[i]
        here(m) == /\ m.source.pdf_file = results[k].pdf_path
                   /\ m.page_info.page_number = p
                   /\ m.page_info.image_index = i - 1
    IN  /\ \E j \in 1..Len(results[k].page_metadata) :
              here(results[k].page_metadata[j])
        /\ \E j \in 1..Len(image_metadata) :
              /\ here(image_metadata[j])
              /\ image_metadata[j].image_properties.path \in DOMAIN disk
              /\ disk[image_metadata[j].image_properties.path] = image.image

\* C3: an embedded image whose decoding fails (analyze_image or extract_image
\* raises or yields nothing) is skipped on its own: every other image on the
\* same page and on the later sampled pages of the document is still
\* extracted, written to disk and recorded in the returned metadata.
C3_FailedImageSkippedAlone ==
    \A k \in Processed :
        DocOf(k) # NoFile =>
            LET selected == select_pages(DocOf(k), DocOf(k).total_pages)
            IN  \A s \in 1..Len(selected) :
                    \A i \in 1..Len(get_images(DocOf(k), selected[s])) :
                        get_images(DocOf(k), selected[s])[i].kind = "ok"
                            => Recorded(k, selected[s], i)

Contributors == {k \in Processed : ~results[k].raised}
BatchOver == epc \in {"done", "crashed"}

\* C4: when save_metadata runs after a batch in which zero documents were
\* successfully joined and processed, the outcome is a reported error and no
\* manifest with total_images = 0 is written.
C4_ZeroDocumentsIsError ==
    (BatchOver /\ Contributors = {}) => epc = "crashed"

\* C5: average_images_per_book equals the total number of images divided by
\* the number of documents that were found on disk and processed without
\* error, for every mix of processed and failed documents.
C5_AverageOverContributors ==
    (epc = "done" /\ Contributors # {}) =>
        LET avg == manifest.dataset_info.average_images_per_book
        IN  /\ avg[2] # 0
            /\ avg[1] * Cardinality(Contributors)
                   = manifest.dataset_info.total_images * avg[2]

\* C6: generate_image_id is a function of (pdf_path, page_num, image_num)
\* alone: extracting the same unchanged documents a second time yields the
\* same sequence of image ids and writes the same file names with the same
\* bytes, so the files on disk during and after the second run are those the
\* first run left.
C6_ReextractionIdempotent ==
    run = 2 =>
        /\ disk = first_run.disk
        /\ \A k \in Processed :
              ImageIds(results[k].page_metadata)
                  = ImageIds(first_run.results[k].page_metadata)
        /\ (BatchOver => ImageIds(image_metadata) = first_run.ids)

C6_Witness ==
    /\ run = 2 /\ epc = "done"
    /\ Len(image_metadata) > 1
    /\ \E k \in Processed : results[k].raised /\ DocOf(k) # NoFile
    /\ DOMAIN disk # {}

(***************************************************************************)
(* Properties of the parser                                                *)
(***************************************************************************)
CallsWith(tag) == {i \in 1..Len(calls) : calls[i][1] = tag}
CalledTags == {calls[i][1] : i \in 1..Len(calls)}
FirstChars(text, n) == [i \in 1..(IF Len(text) < n THEN Len(text) ELSE n) |-> text[i]]

\* the tracker agrees with the history of log_unknown_field calls
TrackerMatchesCalls ==
    /\ DOMAIN unknown_fields = CalledTags
    /\ DOMAIN unknown_field_examples = CalledTags
    /\ \A tag \in CalledTags :
          /\ unknown_fields[tag] = Cardinality(CallsWith(tag))
          /\ unknown_field_examples[tag]
                 = FirstChars(calls[SetMin(CallsWith(tag))][2], 200)

\* no step lowers a count or replaces a stored example
TrackerOnlyGrows ==
    \A tag \in DOMAIN unknown_fields :
        /\ tag \in DOMAIN unknown_fields'
        /\ unknown_fields'[tag] >= unknown_fields[tag]
        /\ tag \in DOMAIN unknown_field_examples
        /\ tag \in DOMAIN unknown_field_examples'
        /\ unknown_field_examples'[tag] = unknown_field_examples[tag]

\* C7: after any sequence of log_unknown_field calls on one MARCParser, across
\* records and parse_file calls, the stored count of every tag equals the
\* number of calls made with that tag and never decreases, and the stored
\* example is the first 200 characters of the value of the first call with
\* that tag and is never overwritten.
C7_UnknownTagTracking == [](TrackerMatchesCalls) /\ [][TrackerOnlyGrows]_vars

\* two records in two files hold the unknown tag; the first value is longer
\* than 200 characters and the second is another text
C7_Witness ==
    /\ Len(calls) = 2
    /\ calls[1][1] = calls[2][1]
    /\ Len(calls[1][2]) > 200
    /\ calls[2][2] # calls[1][2]
    /\ unknown_fields[calls[1][1]] = 2
    /\ Len(unknown_field_examples[calls[1][1]]) = 200
    /\ Len(all_records) = 2
    /\ all_records[1].marc_file # all_records[2].marc_file

Returned == [i \in 1..(Len(all_records) + Len(records)) |->
                IF i <= Len(all_records) THEN all_records[i]
                ELSE records[i - Len(all_records)]]
Emitted == last_parse.parsed /\ ~last_parse.raised

\* C8: every record returned by parse_file has a non-empty control_number:
\* the value of the record's 001 field when present, and 'Unknown ID'
\* whenever no usable identifier is present (no 001 field, or 001 fields
\* with an empty value only).
C8_ControlNumberNeverEmpty ==
    /\ \A i \in 1..Len(Returned) : Returned[i].control_number # <<>>
    /\ Emitted =>
          LET with001 == {i \in 1..Len(last_parse.input) :
                             last_parse.input[i].tag = Tag001}
              usable == {i \in with001 : last_parse.input[i].text # <<>>}
          IN  /\ (usable = {} => last_parse.record.control_number = UnknownID)
              /\ (with001 # {} /\ SetMin(with001) \in usable =>
                     last_parse.record.control_number
                         = last_parse.input[SetMin(with001)].text)

Decodes(field) == ~field.value_raises /\ ~field.falsy
TagAndValue(fields) == [i \in 1..Len(fields) |-> <<fields[i].tag, fields[i].value>>]
TagAndText(fields) == [i \in 1..Len(fields) |-> <<fields[i].tag, fields[i].text>>]

\* C9: a failure while decoding any single field of a record (control or data
\* field, known or unknown tag) skips only that field: the record is still
\* emitted, with every other field of the record in source order, and parsing
\* goes on with the file.
C9_FieldFailureSkipsField ==
    last_parse.parsed =>
        /\ ~last_parse.raised
        /\ TagAndValue(last_parse.record.fields)
               = TagAndText(SelectSeq(last_parse.input, Decodes))
        /\ (ppc = "reading" => records[Len(records)] = last_parse.record)

HasYear(field) ==
    field.tag = Tag210 /\ Decodes(field) /\ extract_year(field.text) # None

\* C10: year is the first 4-digit run found in the value of the record's 210
\* field; once a year has been found for the record, no later field of the
\* record (a later 210 field with another year or with no year included)
\* replaces or clears it.
C10_YearFoundIsKept ==
    Emitted =>
        LET dated == SelectSeq(last_parse.input, HasYear)
        IN  dated # <<>> => last_parse.record.year = extract_year(dated[1].text)

(***************************************************************************)
(* Properties of extract_pdf_filename                                      *)
(***************************************************************************)
UrlsCalled == urls_arg # <<>>
UrlsGiven == urls_arg[2]
ViewText == <<"v", "i", "e", "w">>
Pdf(id) == id \o <<".", "p", "d", "f">>

\* two lowercase letters followed by digits
IsId(s) ==
    /\ Len(s) >= 3
    /\ IsLower(s[1]) /\ IsLower(s[2])
    /\ \A n \in 3..Len(s) : IsDigit(s[n])

\* the places <<i, j>> of the two slashes of every '/{id}/' segment of url
IdSegments(url) ==
    {ij \in (1..Len(url)) \X (1..Len(url)) :
        /\ ij[1] < ij[2]
        /\ url[ij[1]] = "/" /\ url[ij[2]] = "/"
        /\ IsId(SubSeq(url, ij[1] + 1, ij[2] - 1))}
IdOf(url, ij) == SubSeq(url, ij[1] + 1, ij[2] - 1)
AfterSegment(url, ij) == SubSeq(url, ij[2] + 1, Len(url))
Leftmost(segments) == CHOOSE ij \in segments : \A o \in segments : ij[1] <= o[1]

\* rest is 'view' or 'view#<fragment>'
IsViewEnd(rest) ==
    \/ rest = ViewText
    \/ Len(rest) >= 5 /\ SubSeq(rest, 1, 5) = ViewText \o <<"#">>
NoLineBreak(rest) == \A n \in 1..Len(rest) : rest[n] # "\n"

\* the segments with which url ends in '/{id}/view' or '/{id}/view#<fragment>'
ViewSegments(url) == {ij \in IdSegments(url) : IsViewEnd(AfterSegment(url, ij))}
\* the same, the fragment being free of line breaks
CleanViewSegments(url) ==
    {ij \in ViewSegments(url) : NoLineBreak(AfterSegment(url, ij))}
\* url holds '/{id}/view' somewhere
HoldsIdView(url) ==
    \E ij \in IdSegments(url) :
        /\ Len(AfterSegment(url, ij)) >= 4
        /\ SubSeq(AfterSegment(url, ij), 1, 4) = ViewText
\* url holds '/view' and a '/{id}/' segment
Eligible(url) == Contains(url, <<"/">> \o ViewText) /\ IdSegments(url) # {}
EligibleUrls == {k \in 1..Len(UrlsGiven) : Eligible(UrlsGiven[k])}

C12_LooseFallbackOnAnyUrl ==
    (UrlsCalled /\ \A k \in 1..Len(UrlsGiven) : StrictMatches(UrlsGiven[k]) = {}) =>
        LET urls == UrlsGiven
            withId == {k \in 1..Len(urls) : IdSegments(urls[k]) # {}}
        IN  IF withId # {}
            THEN \E k \in withId : \E ij \in IdSegments(urls[k]) :
                    urls_result = Pdf(IdOf(urls[k], ij))
            ELSE urls_result = None

\* C12, amended: the first url of the list that holds both '/view' and a
\* '/{id}/' segment decides the result, which is '{id}.pdf' of one of its
\* segments and, when that url does not match the strict pattern, of its
\* leftmost segment; the result is None exactly when no url holds both.
C12_LooseFallbackOnViewUrls ==
    UrlsCalled =>
        IF EligibleUrls = {} THEN urls_result = None
        ELSE LET url == UrlsGiven[SetMin(EligibleUrls)]
             IN  /\ \E ij \in IdSegments(url) : urls_result = Pdf(IdOf(url, ij))
                 /\ StrictMatches(url) = {}
                      => urls_result = Pdf(IdOf(url, Leftmost(IdSegments(url))))

\* a url without '/view' is passed over though it holds a segment, and the
\* loose pattern answers the next one
C12_Witness ==
    /\ urls_arg = <<"called", <<UrlNoView, UrlLooseOnly>>>>
    /\ urls_result = <<"e", "f", "3", ".", "p", "d", "f">>

(***************************************************************************)
(* Properties of ImageExtractor.__init__                                   *)
(***************************************************************************)
Constructed == epc # "idle"

\* what the normalization is to make of a year of the file: the year, or
\* 0 for a record that is to be excluded
NormalYear(y) ==
    IF y = YearEmpty THEN 1800
    ELSE IF y = Year5780 THEN 1780
    ELSE IF y # None /\ IsIntText(y) THEN ParseInt(y)
    ELSE 0

\* C13, as stated: a year "" becomes 1800, a year "5780" becomes 1780, a
\* record whose year is any other non-integer value or absent is excluded,
\* every other record (of a pdf_filename holding "b") is kept, and no such
\* record makes the construction fail. Files whose every record names a
\* document are looked at, so that a failure can only come from a year.
C13_YearNormalization ==
    (/\ Constructed
     /\ Len(marc_json) > 0
     /\ \A k \in 1..Len(marc_json) : marc_json[k].pdf_filename # None) =>
        LET keep == {k \in 1..Len(marc_json) :
                        /\ NormalYear(marc_json[k].year) # 0
                        /\ Contains(marc_json[k].pdf_filename, <<"b">>)}
            nth(n) == CHOOSE k \in keep : Cardinality({j \in keep : j <= k}) = n
        IN  /\ epc = "loop"
            /\ Len(df) = Cardinality(keep)
            /\ \A n \in 1..Len(df) :
                  /\ df[n].pdf_filename = Str(marc_json[nth(n)].pdf_filename)
                  /\ df[n].year = NormalYear(marc_json[nth(n)].year)

(***************************************************************************)
(* Properties of process_all_books and of the manifest                     *)
(***************************************************************************)
\* the page_metadata of the first n calls of process_pdf, one after another
RECURSIVE RecordsOf(_, _)
RecordsOf(rs, n) ==
    IF n = 0 THEN <<>> ELSE RecordsOf(rs, n - 1) \o rs[n].page_metadata

\* C14: a document whose processing fails does not stop the batch: the
\* documents are processed in table order, a table with at least one row
\* never ends without its manifest, and the manifest written after the last
\* document holds exactly the image records of the documents that were
\* processed without error, in order.
C14_FailureDoesNotStopBatch ==
    /\ Len(results) = row
    /\ \A k \in 1..row : results[k].pdf_path = BookPath(df[k].pdf_filename)
    /\ epc = "loop" => image_metadata = RecordsOf(results, row)
    /\ Len(df) > 0 => epc # "crashed"
    /\ epc = "done" =>
          /\ row = Len(df)
          /\ manifest.written
          /\ manifest.images = RecordsOf(results, Len(results))
          /\ \A k \in 1..Len(results) :
                results[k].raised => results[k].page_metadata = <<>>

\* the first document failed, the second was processed and is in the manifest
C14_Witness ==
    /\ run = 1 /\ epc = "done"
    /\ Len(results) = 2
    /\ results[1].raised /\ ~results[2].raised
    /\ manifest.images = results[2].page_metadata
    /\ Len(manifest.images) > 0

RECURSIVE SumCounts(_)
SumCounts(pairs) ==
    IF pairs = <<>> THEN 0 ELSE pairs[1][2] + SumCounts(Tail(pairs))

\* C16: year_distribution lists the years in ascending order, each with the
\* number of image records of the manifest that carry it (the year of the
\* table row of their document); the counts add up to total_images and
\* every listed year is carried by at least one image record.
C16_YearDistribution ==
    manifest.written =>
        LET dist == manifest.dataset_info.year_distribution
            images == manifest.images
            with(y) == {k \in 1..Len(images) : images[k].source.year = y}
        IN  /\ \A j \in 1..Len(dist) : \A k \in 1..Len(dist) :
                  j < k => dist[j][1] < dist[k][1]
            /\ \A j \in 1..Len(dist) :
                  /\ dist[j][2] = Cardinality(with(dist[j][1]))
                  /\ dist[j][2] >= 1
            /\ \A k \in 1..Len(images) :
                  /\ \E j \in 1..Len(dist) : dist[j][1] = images[k].source.year
                  /\ \E n \in 1..Len(df) :
                        /\ BookPath(df[n].pdf_filename) = images[k].source.pdf_file
                        /\ df[n].year = images[k].source.year
            /\ SumCounts(dist) = manifest.dataset_info.total_images
            /\ manifest.dataset_info.total_images = Len(images)

\* two years, the later one carried by the images of a document of many
C16_Witness ==
    /\ manifest.written
    /\ Len(manifest.dataset_info.year_distribution) = 2
    /\ manifest.dataset_info.year_distribution[1][1] = 1780
    /\ manifest.dataset_info.year_distribution[2][2] > 2

\* C18, as stated: when the first run has finished, the image files in the
\* output directory and the image records of the manifest correspond: every
\* record names a file that holds its image, and every file has a record.
C18_FilesMatchManifest ==
    (run = 1 /\ epc = "done") =>
        /\ \A k \in 1..Len(manifest.images) :
              LET m == manifest.images[k]
              IN  /\ m.image_properties.path \in DOMAIN disk
                  /\ m.image_properties.path =
                        m.image_id \o "." \o m.image_properties.extension
                  /\ disk[m.image_properties.path] =
                        <<m.page_info.page_number, m.page_info.image_index + 1, 7>>
        /\ \A f \in DOMAIN disk :
              \E k \in 1..Len(manifest.images) :
                  manifest.images[k].image_properties.path = f

C19_NoDivisionByZero ==
    \A k \in 1..Len(results) :
        LET doc == books[results[k].pdf_path]
        IN  /\ results[k].error # "ZeroDivisionError"
            /\ (doc # NoFile /\ doc.total_pages <= 10) =>
                  /\ ~results[k].raised
                  /\ results[k].page_metadata = <<>>

\* a document of 10 pages, every page of which holds images, returned empty
C19_Witness ==
    /\ epc = "returned"
    /\ books[PdfArg] # NoFile
    /\ books[PdfArg].total_pages = 10 /\ books[PdfArg].layout = "two"
    /\ ~results[1].raised
    /\ results[1].page_metadata = <<>>

(***************************************************************************)
(* Properties of process_directory                                         *)
(***************************************************************************)
\* the records of the files of the log that parsed, one file after another
RECURSIVE ParsedRecords(_, _)
ParsedRecords(log, n) ==
    IF n = 0 THEN <<>>
    ELSE ParsedRecords(log, n - 1) \o (IF log[n].ok THEN log[n].records ELSE <<>>)

\* C15: a catalog file whose parse fails adds no record and is reported;
\* the records of the files that parsed are all in all_records, and so in
\* the records file and in the returned count.
C15_FailedFileContributesNothing ==
    /\ \A k \in 1..Len(file_log) :
          ~file_log[k].ok =>
              /\ file_log[k].marc_file \in reported
              /\ \A n \in 1..Len(all_records) :
                    all_records[n].marc_file # file_log[k].marc_file
    /\ all_records = ParsedRecords(file_log, Len(file_log))
    /\ ppc = "done" =>
          /\ json_records.written
          /\ json_records.records = ParsedRecords(file_log, Len(file_log))
          /\ json_records.count = Len(ParsedRecords(file_log, Len(file_log)))

\* the first file failed while its first record was parsed, the second file
\* gave one record, which is the one written and counted
C15_Witness ==
    /\ ppc = "done"
    /\ Len(file_log) = 2
    /\ ~file_log[1].ok /\ file_log[2].ok
    /\ nread = 2
    /\ Len(file_log[2].records) = 1
    /\ json_records.records = file_log[2].records
    /\ json_records.count = 1

====
